---------------------------- MODULE Spec2Model ----------------------------
(***************************************************************************)
(* ACES unit-test backend (backend.py): the exam_results, users,           *)
(* admin_settings and admin_sessions tables and the REST handlers that     *)
(* read and write them.  Every handler is an `async def` without an await, *)
(* so a handler runs as one atomic step; each action below is one whole    *)
(* handler, its response recorded in resp.                                 *)
(*                                                                         *)
(* Text values that the code trims or tests for emptiness (usernames,      *)
(* passwords, unit numbers) are sequences of one-character strings.        *)
(* A Python float is an integer count of 1/FloatOne, which is exact for    *)
(* the binary64 values used here.                                          *)
(* Session tokens are strings, "" being the absent/empty token.            *)
(* An Optional[T] is a sequence of length 0 (None) or 1.                   *)
(***************************************************************************)
EXTENDS Integers, Sequences, FiniteSets, TLC

VARIABLES
    USE_POSTGRES,    \* whether DATABASE_URL selected PostgreSQL (else SQLite)
    exam_results,    \* rows of table exam_results
    exam_seq,        \* AUTOINCREMENT / SERIAL counter of exam_results.id
    users,           \* rows of table users
    users_seq,       \* AUTOINCREMENT / SERIAL counter of users.id
    admin_settings,  \* rows of table admin_settings
    admin_sessions,  \* tokens of table admin_sessions
    issued_tokens,   \* tokens secrets.token_urlsafe has returned so far
    clock,           \* CURRENT_TIMESTAMP, in seconds
    resp,            \* the last handler's request and response
    calls            \* the requests that server processes are in the middle of

vars == <<USE_POSTGRES, exam_results, exam_seq, users, users_seq, admin_settings,
          admin_sessions, issued_tokens, clock, resp, calls>>

recordTables == <<exam_results, exam_seq>>

accountTables == <<users, users_seq>>

adminTables == <<admin_settings, admin_sessions, issued_tokens>>

\* all that a handler may read or write
db == <<USE_POSTGRES, recordTables, accountTables, adminTables>>

-----------------------------------------------------------------------------
(* Bounds of the model *)

MaxInserts == 2      \* rows ever inserted into exam_results
MaxUsers == 2        \* accounts ever created
MaxTicks == 2        \* times the clock advances
TickSeconds == 30    \* seconds the clock advances by at a time

-----------------------------------------------------------------------------
(* Text *)

Whitespace == {" "}

RECURSIVE LStrip(_)
LStrip(s) ==
    IF s # <<>> /\ Head(s) \in Whitespace THEN LStrip(Tail(s)) ELSE s

RECURSIVE RStrip(_)
RStrip(s) ==
    IF s # <<>> /\ s[Len(s)] \in Whitespace
    THEN RStrip(SubSeq(s, 1, Len(s) - 1))
    ELSE s

\* str.strip()
Strip(s) == RStrip(LStrip(s))

\* hashlib.sha256(p.encode()).hexdigest(): a digest, distinct from every
\* plaintext, and distinct for distinct plaintexts (no collisions)
Sha256(p) == <<"sha256", p>>

DefaultAdminPassword == <<"a", "d", "m", "i", "n", "1", "2", "3">>

None == <<>>

Some(v) == <<v>>

Opt(S) == {None} \cup {Some(v) : v \in S}

-----------------------------------------------------------------------------
(* Numbers *)

\* 1.0, in the unit the floats are counted in (2^-18)
FloatOne == 2^18

\* the values with a 24-bit significand lie this far apart around n
RECURSIVE Float4Ulp(_)
Float4Ulp(n) == IF n < 2^24 THEN 1 ELSE 2 * Float4Ulp(n \div 2)

\* a non-negative binary64 value rounded to binary32, ties to even
Float4(n) ==
    LET ulp == Float4Ulp(n)
        q == n \div ulp
        r == n % ulp
    IN  IF 2 * r > ulp \/ (2 * r = ulp /\ q % 2 = 1)
        THEN (q + 1) * ulp
        ELSE q * ulp

\* a value written to a column declared REAL and read back: 8-byte floating
\* point in SQLite, 4-byte floating point in PostgreSQL
RealColumn(v) == IF USE_POSTGRES THEN Float4(v) ELSE v

-----------------------------------------------------------------------------
(* Timestamps *)

SecondsPerMinute == 60

TzOffsetSeconds == 28800

\* format_exam_date: the timestamp (naive, taken as UTC) moved to UTC+8 and
\* printed as '%Y-%m-%d %H:%M'; None is printed as the empty string
format_exam_date(exam_date) ==
    IF exam_date = None
    THEN ""
    ELSE <<"%Y-%m-%d %H:%M", (exam_date[1] + TzOffsetSeconds) \div SecondsPerMinute>>

\* DEFAULT CURRENT_TIMESTAMP
CurrentTimestamp == Some(clock)


-----------------------------------------------------------------------------
(* Record Store: table exam_results *)

\* fetchone(): None when the query selected nothing, else a selected row
fetchone(rows) == IF rows = {} THEN None ELSE Some(CHOOSE r \in rows : TRUE)

\* SELECT * FROM exam_results WHERE id = ?
SelectExamById(table, result_id) == {r \in table : r.id = result_id}

\* variant: INTEGER PRIMARY KEY without AUTOINCREMENT, one more than the
\* largest id in the table
NextExamId_max(table, seq) ==
    IF table = {} THEN 1
    ELSE (CHOOSE i \in {r.id : r \in table} : \A r \in table : r.id <= i) + 1

\* the id column: INTEGER PRIMARY KEY AUTOINCREMENT / SERIAL, one more than
\* the largest id the table ever handed out
NextExamId(table, seq) == seq + 1

\* get_last_insert_id: cursor.lastrowid / lastval() after the INSERT
get_last_insert_id(seq) == seq

\* INSERT INTO exam_results (username, unit_number, score, type_accuracy,
\* correct_count, total_questions): id and exam_date take their defaults
InsertExam(table, seq, values, now) ==
    table \cup {[id |-> NextExamId(table, seq),
                 username |-> values.username,
                 unit_number |-> values.unit_number,
                 score |-> RealColumn(values.score),
                 type_accuracy |-> RealColumn(values.type_accuracy),
                 correct_count |-> values.correct_count,
                 total_questions |-> values.total_questions,
                 exam_date |-> now]}

\* ExamResultResponse(id=row['id'], ..., exam_date=format_exam_date(row['exam_date']))
ExamResultResponse(row) ==
    [id |-> row.id,
     username |-> row.username,
     unit_number |-> row.unit_number,
     score |-> row.score,
     type_accuracy |-> row.type_accuracy,
     correct_count |-> row.correct_count,
     total_questions |-> row.total_questions,
     exam_date |-> format_exam_date(row.exam_date)]

\* variant: `if not result.username`
UsernameMissing_unstripped(username) == username = <<>>

\* `if not result.username.strip()`
UsernameMissing(username) == Strip(username) = <<>>

\* POST /api/results
save_exam_result(result) ==
    IF UsernameMissing(result.username)
    THEN /\ resp' = [op |-> "save_exam_result", request |-> result,
                     status |-> 400, detail |-> "Username is required"]
         /\ UNCHANGED <<db, clock, calls>>
    ELSE /\ exam_seq < MaxInserts
         /\ LET values == [result EXCEPT !.username = Strip(result.username)]
                table == InsertExam(exam_results, exam_seq, values, CurrentTimestamp)
                seq == NextExamId(exam_results, exam_seq)
                result_id == get_last_insert_id(seq)
                row == fetchone(SelectExamById(table, result_id))
            IN  /\ exam_results' = table
                /\ exam_seq' = seq
                /\ resp' = [op |-> "save_exam_result", request |-> result,
                            status |-> 200, body |-> ExamResultResponse(row[1])]
         /\ UNCHANGED <<USE_POSTGRES, accountTables, adminTables, clock, calls>>

\* variant: `if update.score:` and so on, which skips a 0 like a None
SetFields_truthy(row, update) ==
    [row EXCEPT
        !.unit_number = IF update.unit_number \notin {None, Some(<<>>)}
                        THEN update.unit_number[1] ELSE @,
        !.score = IF update.score \notin {None, Some(0)}
                  THEN RealColumn(update.score[1]) ELSE @,
        !.type_accuracy = IF update.type_accuracy \notin {None, Some(0)}
                          THEN RealColumn(update.type_accuracy[1]) ELSE @,
        !.correct_count = IF update.correct_count \notin {None, Some(0)}
                          THEN update.correct_count[1] ELSE @,
        !.total_questions = IF update.total_questions \notin {None, Some(0)}
                            THEN update.total_questions[1] ELSE @]

\* the SET list built from the fields of the payload that are not None
SetFields(row, update) ==
    [row EXCEPT
        !.unit_number = IF update.unit_number # None THEN update.unit_number[1] ELSE @,
        !.score = IF update.score # None THEN RealColumn(update.score[1]) ELSE @,
        !.type_accuracy = IF update.type_accuracy # None
                          THEN RealColumn(update.type_accuracy[1]) ELSE @,
        !.correct_count = IF update.correct_count # None THEN update.correct_count[1] ELSE @,
        !.total_questions = IF update.total_questions # None THEN update.total_questions[1] ELSE @]

\* `if updates:` UPDATE exam_results SET ... WHERE id = ?
UpdateExam(table, result_id, update) ==
    {IF r.id = result_id THEN SetFields(r, update) ELSE r : r \in table}

\* the row the handler answers with: the record fetched after the UPDATE
UpdatedRow(table, existing, result_id) ==
    fetchone(SelectExamById(table, result_id))

\* PUT /api/results/{result_id}
update_exam_result(result_id, update) ==
    LET existing == fetchone(SelectExamById(exam_results, result_id))
    IN  IF existing = None
        THEN /\ resp' = [op |-> "update_exam_result", result_id |-> result_id,
                         request |-> update, status |-> 404,
                         detail |-> "Record not found"]
             /\ UNCHANGED <<db, clock, calls>>
        ELSE LET table == UpdateExam(exam_results, result_id, update)
                 row == UpdatedRow(table, existing, result_id)
             IN  /\ exam_results' = table
                 /\ resp' = [op |-> "update_exam_result", result_id |-> result_id,
                             request |-> update, status |-> 200,
                             body |-> ExamResultResponse(row[1])]
                 /\ UNCHANGED <<USE_POSTGRES, exam_seq, accountTables, adminTables, clock, calls>>

\* DELETE FROM exam_results WHERE id = ?
DeleteExam(table, result_id) == {r \in table : r.id # result_id}

\* DELETE /api/results/{result_id}
delete_exam_result(result_id) ==
    IF fetchone(SelectExamById(exam_results, result_id)) = None
    THEN /\ resp' = [op |-> "delete_exam_result", result_id |-> result_id,
                     status |-> 404, detail |-> "Record not found"]
         /\ UNCHANGED <<db, clock, calls>>
    ELSE /\ exam_results' = DeleteExam(exam_results, result_id)
         /\ resp' = [op |-> "delete_exam_result", result_id |-> result_id,
                     status |-> 200,
                     body |-> [message |-> "Record deleted successfully",
                               id |-> result_id]]
         /\ UNCHANGED <<USE_POSTGRES, exam_seq, accountTables, adminTables, clock, calls>>

(* update_exam_result and delete_exam_result statement by statement, as a
   server process w runs them while other processes use the same database:
   every statement is one step, and what a process has read stays in its
   call *)

\* the request arrives and the handler checks that the record exists:
\* SELECT * FROM exam_results WHERE id = ?, 404 when there is none
update_check(w, result_id, update) ==
    LET existing == fetchone(SelectExamById(exam_results, result_id))
    IN  /\ calls[w].pc \in {"idle", "done"}
        /\ calls' = [calls EXCEPT ![w] =
              IF existing = None
              THEN [op |-> "update_exam_result", pc |-> "done",
                    result_id |-> result_id, request |-> update,
                    existing |-> existing, status |-> 404,
                    detail |-> "Record not found"]
              ELSE [op |-> "update_exam_result", pc |-> "update",
                    result_id |-> result_id, request |-> update,
                    existing |-> existing]]
        /\ UNCHANGED <<db, clock, resp>>

\* variant: every column is written back, the ones not given from the row
\* that was read
UpdateStatement_wholerow(table, existing, result_id, update) ==
    {IF r.id = result_id THEN SetFields(existing[1], update) ELSE r : r \in table}

\* `if updates:` UPDATE exam_results SET <the fields given> WHERE id = ?,
\* committed; a row that is gone is not written
UpdateStatement(table, existing, result_id, update) ==
    IF \A f \in DOMAIN update : update[f] = None
    THEN table
    ELSE UpdateExam(table, result_id, update)

\* the handler builds and runs its UPDATE
update_write(w) ==
    /\ calls[w].op = "update_exam_result"
    /\ calls[w].pc = "update"
    /\ exam_results' = UpdateStatement(exam_results, calls[w].existing,
                                       calls[w].result_id, calls[w].request)
    /\ calls' = [calls EXCEPT ![w].pc = "refetch"]
    /\ UNCHANGED <<USE_POSTGRES, exam_seq, accountTables, adminTables, clock, resp>>

\* the handler fetches the record again and answers with it; row['id'] of
\* no row raises TypeError, which the server answers with 500
update_refetch(w) ==
    LET row == fetchone(SelectExamById(exam_results, calls[w].result_id))
    IN  /\ calls[w].op = "update_exam_result"
        /\ calls[w].pc = "refetch"
        /\ calls' = [calls EXCEPT ![w] =
              IF row = None
              THEN [op |-> "update_exam_result", pc |-> "done",
                    result_id |-> calls[w].result_id,
                    request |-> calls[w].request,
                    existing |-> calls[w].existing, status |-> 500,
                    detail |-> "Internal Server Error"]
              ELSE [op |-> "update_exam_result", pc |-> "done",
                    result_id |-> calls[w].result_id,
                    request |-> calls[w].request,
                    existing |-> calls[w].existing, status |-> 200,
                    body |-> ExamResultResponse(row[1])]]
        /\ UNCHANGED <<db, clock, resp>>

\* the request arrives and the handler checks that the record exists:
\* SELECT id FROM exam_results WHERE id = ?, 404 when there is none
delete_check(w, result_id) ==
    /\ calls[w].pc \in {"idle", "done"}
    /\ calls' = [calls EXCEPT ![w] =
          IF fetchone(SelectExamById(exam_results, result_id)) = None
          THEN [op |-> "delete_exam_result", pc |-> "done",
                result_id |-> result_id, status |-> 404,
                detail |-> "Record not found"]
          ELSE [op |-> "delete_exam_result", pc |-> "delete",
                result_id |-> result_id]]
    /\ UNCHANGED <<db, clock, resp>>

\* DELETE FROM exam_results WHERE id = ?, committed, and the answer
delete_write(w) ==
    /\ calls[w].op = "delete_exam_result"
    /\ calls[w].pc = "delete"
    /\ exam_results' = DeleteExam(exam_results, calls[w].result_id)
    /\ calls' = [calls EXCEPT ![w] =
          [op |-> "delete_exam_result", pc |-> "done",
           result_id |-> calls[w].result_id, status |-> 200,
           body |-> [message |-> "Record deleted successfully",
                     id |-> calls[w].result_id]]]
    /\ UNCHANGED <<USE_POSTGRES, exam_seq, accountTables, adminTables, clock, resp>>

\* variant: WHERE username = ?, whatever the unit asked for
SelectExams_anyunit(table, username, unit) == {r \in table : r.username = username}

\* WHERE username = ? [AND unit_number = ?]; `if unit:` drops the unit
\* condition for a missing and for an empty unit
SelectExams(table, username, unit) ==
    {r \in table : /\ r.username = username
                   /\ (unit \notin {None, Some(<<>>)} => r.unit_number = unit[1])}

\* variant: ORDER BY exam_date ASC whatever the direction asked for
OrderByExamDate_ascending(rows, descending) ==
    {s \in [1..Cardinality(rows) -> rows] :
        /\ \A i, j \in 1..Cardinality(rows) : i # j => s[i] # s[j]
        /\ \A i, j \in 1..Cardinality(rows) :
              i < j => s[i].exam_date[1] <= s[j].exam_date[1]}

\* ORDER BY exam_date ASC / DESC: rows of equal exam_date come in any order
OrderByExamDate(rows, descending) ==
    {s \in [1..Cardinality(rows) -> rows] :
        /\ \A i, j \in 1..Cardinality(rows) : i # j => s[i] # s[j]
        /\ \A i, j \in 1..Cardinality(rows) :
              i < j => IF descending
                       THEN s[i].exam_date[1] >= s[j].exam_date[1]
                       ELSE s[i].exam_date[1] <= s[j].exam_date[1]}

\* LIMIT n
Limit(s, n) == SubSeq(s, 1, IF n < Len(s) THEN n ELSE Len(s))

\* GET /api/results/{username}: the rows fetched, as they may be ordered
get_user_results(table, username, limit) ==
    {Limit(s, limit) : s \in OrderByExamDate(SelectExams(table, username, None), TRUE)}

\* GET /api/all-results: the rows fetched
get_all_results(table, limit) ==
    {Limit(s, limit) : s \in OrderByExamDate(table, TRUE)}

\* GET /api/curve/{username}: the rows fetched
get_score_curve(table, username, unit, limit) ==
    {Limit(s, limit) : s \in OrderByExamDate(SelectExams(table, username, unit), FALSE)}

RecentLimit == 10

\* GET /api/stats/{username}: the rows counted and averaged, and the rows of
\* the recent scores
get_user_stats(table, username, unit) ==
    [rows |-> SelectExams(table, username, unit),
     recent |-> {Limit(s, RecentLimit) :
                    s \in OrderByExamDate(SelectExams(table, username, unit), TRUE)}]

\* ScoreCurveData(dates=..., scores=..., type_accuracies=...) of fetched rows
ScoreCurveData(rows) ==
    [dates |-> [i \in 1..Len(rows) |-> format_exam_date(rows[i].exam_date)],
     scores |-> [i \in 1..Len(rows) |-> rows[i].score],
     type_accuracies |-> [i \in 1..Len(rows) |-> rows[i].type_accuracy]]

\* GET /api/results/{username}
GetUserResults(username, limit) ==
    \E rows \in get_user_results(exam_results, username, limit) :
        /\ resp' = [op |-> "get_user_results", username |-> username,
                    limit |-> limit, status |-> 200, rows |-> rows,
                    body |-> [i \in 1..Len(rows) |-> ExamResultResponse(rows[i])]]
        /\ UNCHANGED <<db, clock, calls>>

\* GET /api/all-results
GetAllResults(limit) ==
    \E rows \in get_all_results(exam_results, limit) :
        /\ resp' = [op |-> "get_all_results", limit |-> limit,
                    status |-> 200, rows |-> rows,
                    body |-> [i \in 1..Len(rows) |-> ExamResultResponse(rows[i])]]
        /\ UNCHANGED <<db, clock, calls>>

\* GET /api/curve/{username}
GetScoreCurve(username, unit, limit) ==
    \E rows \in get_score_curve(exam_results, username, unit, limit) :
        /\ resp' = [op |-> "get_score_curve", username |-> username,
                    unit |-> unit, limit |-> limit, status |-> 200,
                    rows |-> rows, body |-> ScoreCurveData(rows)]
        /\ UNCHANGED <<db, clock, calls>>

AllMinQuestions == 11

AllMaxQuestions == 1000

\* variant: '10': (5, 10), up to 10 questions
categories_upto10 ==
    [cat_name \in {"5", "10", "ALL"} |->
        CASE cat_name = "5" -> <<5, 5>>
          [] cat_name = "10" -> <<5, 10>>
          [] cat_name = "ALL" -> <<AllMinQuestions, AllMaxQuestions>>]

\* categories = {'5': (5, 5), '10': (10, 10), 'ALL': (11, 1000)}
categories ==
    [cat_name \in {"5", "10", "ALL"} |->
        CASE cat_name = "5" -> <<5, 5>>
          [] cat_name = "10" -> <<10, 10>>
          [] cat_name = "ALL" -> <<AllMinQuestions, AllMaxQuestions>>]

\* WHERE username = ? [AND unit_number = ?] AND total_questions >= ? AND
\* total_questions <= ?
SelectExamsByCount(table, username, unit, min_q, max_q) ==
    {r \in SelectExams(table, username, unit) :
        r.total_questions >= min_q /\ r.total_questions <= max_q}

\* the rows fetched for each category, as they may be ordered
get_score_curve_by_count(table, username, unit) ==
    {[cat_name \in DOMAIN categories |->
        CASE cat_name = "5" -> s5 [] cat_name = "10" -> s10 [] cat_name = "ALL" -> sAll] :
        s5 \in OrderByExamDate(SelectExamsByCount(table, username, unit,
                                  categories["5"][1], categories["5"][2]), FALSE),
        s10 \in OrderByExamDate(SelectExamsByCount(table, username, unit,
                                  categories["10"][1], categories["10"][2]), FALSE),
        sAll \in OrderByExamDate(SelectExamsByCount(table, username, unit,
                                  categories["ALL"][1], categories["ALL"][2]), FALSE)}

\* GET /api/curve-by-count/{username}
GetScoreCurveByCount(username, unit) ==
    \E rows \in get_score_curve_by_count(exam_results, username, unit) :
        /\ resp' = [op |-> "get_score_curve_by_count", username |-> username,
                    unit |-> unit, status |-> 200, rows |-> rows,
                    body |-> [cat_name \in DOMAIN categories |->
                                 ScoreCurveData(rows[cat_name])]]
        /\ UNCHANGED <<db, clock, calls>>

Digits == <<"0", "1", "2", "3", "4", "5", "6", "7", "8", "9">>

IsDigit(c) == \E i \in 1..Len(Digits) : Digits[i] = c

DigitValue(c) == (CHOOSE i \in 1..Len(Digits) : Digits[i] = c) - 1

\* the value of the longest prefix of decimal digits, 0 when there is none
RECURSIVE DigitPrefixValue(_, _)
DigitPrefixValue(s, acc) ==
    IF s = <<>> \/ ~IsDigit(Head(s))
    THEN acc
    ELSE DigitPrefixValue(Tail(s), 10 * acc + DigitValue(Head(s)))

\* CAST(unit_number AS INTEGER) in SQLite
CastAsInteger(text) == DigitPrefixValue(LStrip(text), 0)

\* SELECT DISTINCT unit_number ... ORDER BY CAST(unit_number AS INTEGER) in
\* SQLite: units of equal value come in any order
SelectDistinctUnits(table, username) ==
    LET unitSet == {r.unit_number : r \in SelectExams(table, username, None)}
    IN  {s \in [1..Cardinality(unitSet) -> unitSet] :
            /\ \A i, j \in 1..Cardinality(unitSet) : i # j => s[i] # s[j]
            /\ \A i, j \in 1..Cardinality(unitSet) :
                  i < j => CastAsInteger(s[i]) <= CastAsInteger(s[j])}

\* PostgreSQL refuses the statement: for SELECT DISTINCT, ORDER BY
\* expressions must appear in the select list
DistinctOrderByRefused == USE_POSTGRES

\* WHERE username = ? AND unit_number = ?
SelectExamsOfUnit(table, username, unit) ==
    {r \in table : r.username = username /\ r.unit_number = unit}

\* GET /api/curve-by-unit/{username}
get_score_curve_by_unit(username) ==
    IF DistinctOrderByRefused
    THEN /\ resp' = [op |-> "get_score_curve_by_unit", username |-> username,
                     status |-> 500]
         /\ UNCHANGED <<db, clock, calls>>
    ELSE \E units \in SelectDistinctUnits(exam_results, username) :
         \E rows \in {f \in [{units[i] : i \in 1..Len(units)} ->
                               UNION {OrderByExamDate(
                                        SelectExamsOfUnit(exam_results, username, u),
                                        FALSE) : u \in {units[i] : i \in 1..Len(units)}}] :
                        \A u \in DOMAIN f :
                            f[u] \in OrderByExamDate(
                                        SelectExamsOfUnit(exam_results, username, u),
                                        FALSE)} :
            /\ resp' = [op |-> "get_score_curve_by_unit", username |-> username,
                        status |-> 200, rows |-> rows,
                        body |-> [units |-> units,
                                  data |-> [u \in DOMAIN rows |->
                                               ScoreCurveData(rows[u])]]]
            /\ UNCHANGED <<db, clock, calls>>

\* SUM(column) over the selected rows
RECURSIVE SumOf(_, _)
SumOf(rows, column) ==
    IF rows = {} THEN 0
    ELSE LET r == CHOOSE x \in rows : TRUE
         IN  r[column] + SumOf(rows \ {r}, column)

\* MAX(score) over the selected rows (they are not empty)
MaxScore(rows) ==
    CHOOSE v \in {r.score : r \in rows} : \A r \in rows : r.score <= v

\* round(AVG(column), 1): the average of the selected rows to the nearest
\* tenth, halves to the even tenth, written as a whole number of tenths
RoundedAverage(rows, column) ==
    LET num == 10 * SumOf(rows, column)
        den == Cardinality(rows) * FloatOne
        q == num \div den
        rem == num % den
    IN  IF 2 * rem > den \/ (2 * rem = den /\ q % 2 = 1) THEN q + 1 ELSE q

\* UserStats(...) built from the aggregate and the recent rows
UserStats(username, rows, recent) ==
    IF Cardinality(rows) = 0
    THEN [username |-> username, total_exams |-> 0, average_score |-> 0,
          average_type_accuracy |-> 0, best_score |-> 0, recent_scores |-> <<>>]
    ELSE [username |-> username,
          total_exams |-> Cardinality(rows),
          average_score |-> RoundedAverage(rows, "score"),
          average_type_accuracy |-> RoundedAverage(rows, "type_accuracy"),
          best_score |-> MaxScore(rows),
          recent_scores |-> [i \in 1..Len(recent) |->
                                recent[Len(recent) + 1 - i].score]]

\* GET /api/stats/{username}
GetUserStats(username, unit) ==
    \E recent \in get_user_stats(exam_results, username, unit).recent :
        /\ resp' = [op |-> "get_user_stats", username |-> username,
                    unit |-> unit, status |-> 200,
                    rows |-> get_user_stats(exam_results, username, unit).rows,
                    recent |-> recent,
                    body |-> UserStats(username,
                                get_user_stats(exam_results, username, unit).rows,
                                recent)]
        /\ UNCHANGED <<db, clock, calls>>

\* time passes between two requests
Tick ==
    /\ clock < MaxTicks * TickSeconds
    /\ clock' = clock + TickSeconds
    /\ UNCHANGED <<db, resp, calls>>

-----------------------------------------------------------------------------
(* Account Store and admin sessions: tables users, admin_settings,
   admin_sessions *)

\* SELECT setting_value FROM admin_settings WHERE setting_key = 'admin_password'
SelectAdminPassword(settings) ==
    {r \in settings : r.setting_key = "admin_password"}

\* variant: INSERT OR REPLACE INTO admin_settings
InsertOrIgnoreSetting_replace(settings, key, value) ==
    {r \in settings : r.setting_key # key}
        \cup {[setting_key |-> key, setting_value |-> value]}

\* INSERT OR IGNORE INTO admin_settings / ON CONFLICT (setting_key) DO NOTHING
InsertOrIgnoreSetting(settings, key, value) ==
    IF \E r \in settings : r.setting_key = key
    THEN settings
    ELSE settings \cup {[setting_key |-> key, setting_value |-> value]}

\* init_db: CREATE TABLE IF NOT EXISTS keeps every table as it is; the
\* default admin password is seeded
init_db ==
    /\ admin_settings' = InsertOrIgnoreSetting(admin_settings, "admin_password",
                                               Sha256(DefaultAdminPassword))
    /\ resp' = [op |-> "init_db"]
    /\ UNCHANGED <<USE_POSTGRES, recordTables, accountTables, admin_sessions, issued_tokens, clock, calls>>

\* variant: a token stays good once issued, whatever admin_sessions holds
verify_admin_token_issued(token) == token \in issued_tokens

\* verify_admin_token
verify_admin_token(token) ==
    IF token = ""
    THEN FALSE
    ELSE fetchone({t \in admin_sessions : t = token}) # None

\* secrets.token_urlsafe(32): 32 random bytes in base64, never empty, and
\* never a value it has returned before
GeneratedTokens == {"t1", "t2"}

token_urlsafe(issued) == GeneratedTokens \ issued

\* `not result or result['setting_value'] != password_hash`
AdminPasswordMismatch(settings, password) ==
    LET result == fetchone(SelectAdminPassword(settings))
    IN  result = None \/ result[1].setting_value # Sha256(password)

\* variant: the INSERT is never committed
InsertSession_lost(sessions, token) == sessions

\* variant: a login replaces the sessions there are
InsertSession_single(sessions, token) == {token}

\* INSERT INTO admin_sessions (token) VALUES (?)
InsertSession(sessions, token) == sessions \cup {token}

\* POST /api/admin/login
admin_login(login) ==
    IF AdminPasswordMismatch(admin_settings, login.password)
    THEN /\ resp' = [op |-> "admin_login", request |-> login, status |-> 401,
                     detail |-> "Invalid password"]
         /\ UNCHANGED <<db, clock, calls>>
    ELSE \E token \in token_urlsafe(issued_tokens) :
         /\ admin_sessions' = InsertSession(admin_sessions, token)
         /\ issued_tokens' = issued_tokens \cup {token}
         /\ resp' = [op |-> "admin_login", request |-> login, status |-> 200,
                     body |-> [success |-> TRUE, token |-> token]]
         /\ UNCHANGED <<USE_POSTGRES, recordTables, accountTables, admin_settings, clock, calls>>

\* POST /api/admin/verify
admin_verify(token) ==
    /\ resp' = IF verify_admin_token(token)
               THEN [op |-> "admin_verify", token |-> token, status |-> 200,
                     body |-> [valid |-> TRUE]]
               ELSE [op |-> "admin_verify", token |-> token, status |-> 401,
                     detail |-> "Invalid or expired token"]
    /\ UNCHANGED <<db, clock, calls>>

\* variant: the DELETE has no WHERE clause
DeleteSession_all(sessions, token) == {}

\* DELETE FROM admin_sessions WHERE token = ?
DeleteSession(sessions, token) == {t \in sessions : t # token}

\* POST /api/admin/logout
admin_logout(token) ==
    /\ admin_sessions' = DeleteSession(admin_sessions, token)
    /\ resp' = [op |-> "admin_logout", token |-> token, status |-> 200,
                body |-> [success |-> TRUE]]
    /\ UNCHANGED <<USE_POSTGRES, recordTables, accountTables, admin_settings, issued_tokens, clock, calls>>

\* variant: the UPDATE is never committed
UpdateAdminPassword_lost(settings, new_hash) == settings

\* UPDATE admin_settings SET setting_value = ? WHERE setting_key = 'admin_password'
UpdateAdminPassword(settings, new_hash) ==
    {IF r.setting_key = "admin_password"
     THEN [r EXCEPT !.setting_value = new_hash]
     ELSE r : r \in settings}

\* POST /api/admin/change-password
admin_change_password(data, token) ==
    IF ~verify_admin_token(token)
    THEN /\ resp' = [op |-> "admin_change_password", request |-> data,
                     token |-> token, status |-> 401,
                     detail |-> "Not authenticated"]
         /\ UNCHANGED <<db, clock, calls>>
    ELSE IF AdminPasswordMismatch(admin_settings, data.old_password)
    THEN /\ resp' = [op |-> "admin_change_password", request |-> data,
                     token |-> token, status |-> 401,
                     detail |-> "Current password is incorrect"]
         /\ UNCHANGED <<db, clock, calls>>
    ELSE /\ admin_settings' = UpdateAdminPassword(admin_settings,
                                                  Sha256(data.new_password))
         /\ resp' = [op |-> "admin_change_password", request |-> data,
                     token |-> token, status |-> 200,
                     body |-> [success |-> TRUE,
                               message |-> "Password changed successfully"]]
         /\ UNCHANGED <<USE_POSTGRES, recordTables, accountTables, admin_sessions, issued_tokens, clock, calls>>

\* variant: `if not username or not password.strip()`
CredentialsMissing_stripped(username, password) ==
    username = <<>> \/ Strip(password) = <<>>

\* `if not username or not password`: the username has been stripped, the
\* password is taken as it was sent
CredentialsMissing(username, password) == username = <<>> \/ password = <<>>

\* variant: username TEXT NOT NULL, without UNIQUE
UsernameTaken_never(table, username) == FALSE

\* username TEXT UNIQUE NOT NULL: the INSERT of a username that a row has
\* already is refused
UsernameTaken(table, username) == \E u \in table : u.username = username

\* variant: SELECT id, username, password_hash FROM users
SelectUserByName_any(table, username) == table

\* SELECT id, username, password_hash FROM users WHERE username = ?
SelectUserByName(table, username) == {u \in table : u.username = username}

\* POST /api/users/create
create_user(data) ==
    LET username == Strip(data.username)
        password == data.password
    IN  IF CredentialsMissing(username, password)
        THEN /\ resp' = [op |-> "create_user", request |-> data, status |-> 400,
                         detail |-> "Username and password are required"]
             /\ UNCHANGED <<db, clock, calls>>
        ELSE IF UsernameTaken(users, username)
        THEN \* the INSERT violates username UNIQUE and raises; a SERIAL id
             \* is used up all the same, an AUTOINCREMENT id is not
             /\ USE_POSTGRES => users_seq < MaxUsers
             /\ users_seq' = IF USE_POSTGRES THEN users_seq + 1 ELSE users_seq
             /\ resp' = [op |-> "create_user", request |-> data, status |-> 400,
                         detail |-> "Username already exists or invalid"]
             /\ UNCHANGED <<USE_POSTGRES, recordTables, users, adminTables, clock, calls>>
        ELSE /\ users_seq < MaxUsers
             /\ users' = users \cup {[id |-> users_seq + 1,
                                      username |-> username,
                                      password_hash |-> Sha256(password),
                                      created_at |-> CurrentTimestamp]}
             /\ users_seq' = users_seq + 1
             /\ resp' = [op |-> "create_user", request |-> data, status |-> 200,
                         body |-> [success |-> TRUE, username |-> username]]
             /\ UNCHANGED <<USE_POSTGRES, recordTables, adminTables, clock, calls>>

\* POST /api/users/login
user_login(data) ==
    LET username == Strip(data.username)
        password == data.password
        row == fetchone(SelectUserByName(users, username))
    IN  /\ resp' =
            IF CredentialsMissing(username, password)
            THEN [op |-> "user_login", request |-> data, status |-> 400,
                  detail |-> "Username and password are required"]
            ELSE IF row = None
            THEN [op |-> "user_login", request |-> data, status |-> 401,
                  detail |-> "Invalid credentials"]
            ELSE IF row[1].password_hash # Sha256(password)
            THEN [op |-> "user_login", request |-> data, status |-> 401,
                  detail |-> "Invalid credentials"]
            ELSE [op |-> "user_login", request |-> data, status |-> 200,
                  body |-> [success |-> TRUE, username |-> username]]
        /\ UNCHANGED <<db, clock, calls>>

\* ord(c) of the characters that occur in usernames
CharCode(c) == CASE c = " " -> 32 [] c = "a" -> 97 [] c = "b" -> 98

\* s < t for two strings, as ORDER BY username compares them
RECURSIVE StrLess(_, _)
StrLess(s, t) ==
    IF t = <<>> THEN FALSE
    ELSE IF s = <<>> THEN TRUE
    ELSE IF CharCode(Head(s)) # CharCode(Head(t))
         THEN CharCode(Head(s)) < CharCode(Head(t))
         ELSE StrLess(Tail(s), Tail(t))

\* SELECT id, username, created_at FROM users ORDER BY username
RECURSIVE SelectUsersOrdered(_)
SelectUsersOrdered(rows) ==
    IF rows = {} THEN <<>>
    ELSE LET first == CHOOSE u \in rows :
                          \A v \in rows \ {u} : StrLess(u.username, v.username)
         IN  <<first>> \o SelectUsersOrdered(rows \ {first})

\* variant: any token that is sent passes
require_admin_nonempty(token) == token # ""

\* require_admin: raises 401 unless the token is valid
require_admin(token) == verify_admin_token(token)

NotAuthenticated(op, request, token) ==
    [op |-> op, request |-> request, token |-> token, status |-> 401,
     detail |-> "Not authenticated"]

\* GET /api/admin/users
admin_list_users(token) ==
    /\ resp' =
         IF ~require_admin(token)
         THEN NotAuthenticated("admin_list_users", <<>>, token)
         ELSE LET rows == SelectUsersOrdered(users)
              IN  [op |-> "admin_list_users", request |-> <<>>, token |-> token,
                   status |-> 200,
                   body |-> [i \in 1..Len(rows) |->
                               [id |-> rows[i].id,
                                username |-> rows[i].username,
                                created_at |-> format_exam_date(rows[i].created_at)]]]
    /\ UNCHANGED <<db, clock, calls>>

\* POST /api/admin/users/delete: DELETE FROM users WHERE id = ?
admin_delete_user(user_id, token) ==
    IF ~require_admin(token)
    THEN /\ resp' = NotAuthenticated("admin_delete_user", [user_id |-> user_id], token)
         /\ UNCHANGED <<db, clock, calls>>
    ELSE /\ users' = {u \in users : u.id # user_id}
         /\ resp' = [op |-> "admin_delete_user", request |-> [user_id |-> user_id],
                     token |-> token, status |-> 200,
                     body |-> [success |-> TRUE, id |-> user_id]]
         /\ UNCHANGED <<USE_POSTGRES, recordTables, users_seq, adminTables, clock, calls>>

\* POST /api/admin/users/reset-password:
\* UPDATE users SET password_hash = ? WHERE id = ?
admin_reset_password(user_id, new_password, token) ==
    IF ~require_admin(token)
    THEN /\ resp' = NotAuthenticated("admin_reset_password",
                                     [user_id |-> user_id,
                                      new_password |-> new_password], token)
         /\ UNCHANGED <<db, clock, calls>>
    ELSE /\ users' = {IF u.id = user_id
                      THEN [u EXCEPT !.password_hash = Sha256(new_password)]
                      ELSE u : u \in users}
         /\ resp' = [op |-> "admin_reset_password",
                     request |-> [user_id |-> user_id,
                                  new_password |-> new_password],
                     token |-> token, status |-> 200,
                     body |-> [success |-> TRUE, id |-> user_id]]
         /\ UNCHANGED <<USE_POSTGRES, recordTables, users_seq, adminTables, clock, calls>>

-----------------------------------------------------------------------------
(* Requests the clients send *)

\* usernames as typed: empty, whitespace only, plain, padded
UsernameInputs == {<<>>, <<" ">>, <<"a">>, <<" ", "a", " ">>, <<"b">>}

\* scores as submitted: 80.0, and 66 + 2^-18, which binary64 holds exactly
\* and binary32 does not
ScoreInputs == {80 * FloatOne, 66 * FloatOne + 1}

\* results as submitted: one user's, under every spelling of the username
\* and with either score
ExamResultInputs ==
    [username : UsernameInputs \ {<<"b">>}, unit_number : {<<"2">>},
     score : {80 * FloatOne}, type_accuracy : {70 * FloatOne},
     correct_count : {4}, total_questions : {10}]
    \cup
    [username : {<<"a">>}, unit_number : {<<"2">>},
     score : ScoreInputs, type_accuracy : {70 * FloatOne},
     correct_count : {4}, total_questions : {10}]

NoUpdate ==
    [unit_number |-> None, score |-> None, type_accuracy |-> None,
     correct_count |-> None, total_questions |-> None]

\* partial payloads: nothing, the score alone (0, which is not None, and a
\* score that binary32 does not hold), every field but the score
ExamResultUpdateInputs ==
    {NoUpdate,
     [NoUpdate EXCEPT !.score = Some(0)],
     [NoUpdate EXCEPT !.score = Some(66 * FloatOne + 1)],
     [NoUpdate EXCEPT !.unit_number = Some(<<"3">>), !.type_accuracy = Some(75 * FloatOne),
                      !.correct_count = Some(5), !.total_questions = Some(5)]}

ResultIdInputs == 1..(MaxInserts + 1)

\* passwords as typed: empty, whitespace only, plain, the default
PasswordInputs == {<<>>, <<" ">>, <<"p">>, DefaultAdminPassword}

\* tokens as sent: absent, never issued, issued at some time
TokenInputs == {"", "forged"} \cup GeneratedTokens

UserIdInputs == 1..MaxUsers

-----------------------------------------------------------------------------
(* Specifications *)

\* server processes that share the database, each handling one request at
\* a time (a handler is a coroutine that never awaits)
Workers == {"w1", "w2", "w3"}

\* a process between two requests
Idle == [op |-> "idle", pc |-> "idle"]

\* either backend, its database fresh, after the init_db() call of the
\* module's import
Init ==
    /\ USE_POSTGRES \in BOOLEAN
    /\ exam_results = {}
    /\ exam_seq = 0
    /\ users = {}
    /\ users_seq = 0
    /\ admin_settings = InsertOrIgnoreSetting({}, "admin_password",
                                              Sha256(DefaultAdminPassword))
    /\ admin_sessions = {}
    /\ issued_tokens = {}
    /\ clock = 0
    /\ resp = [op |-> "init_db"]
    /\ calls = [w \in Workers |-> Idle]

SaveExamResult == \E result \in ExamResultInputs : save_exam_result(result)

UpdateExamResult ==
    \E result_id \in ResultIdInputs, update \in ExamResultUpdateInputs :
        update_exam_result(result_id, update)

DeleteExamResult == \E result_id \in ResultIdInputs : delete_exam_result(result_id)

NextRecords ==
    \/ SaveExamResult
    \/ UpdateExamResult
    \/ DeleteExamResult
    \/ Tick

\* the Record Store alone
SpecRecords == Init /\ [][NextRecords]_vars

QueryUsernames == {<<"a">>, <<"b">>}

QueryUnits == {None, Some(<<"2">>)}

\* results submitted to be read back: two users, units "2" and "10", of
\* 10, 5, 1001 and 7 questions
SubmittedForQueries ==
    {[username |-> <<"a">>, unit_number |-> <<"2">>, score |-> 80 * FloatOne,
      type_accuracy |-> 70 * FloatOne, correct_count |-> 8, total_questions |-> 10],
     [username |-> <<"a">>, unit_number |-> <<"1", "0">>, score |-> 90 * FloatOne,
      type_accuracy |-> 70 * FloatOne, correct_count |-> 4, total_questions |-> 5],
     [username |-> <<"a">>, unit_number |-> <<"2">>, score |-> 90 * FloatOne,
      type_accuracy |-> 70 * FloatOne, correct_count |-> 9,
      total_questions |-> AllMaxQuestions + 1],
     [username |-> <<"b">>, unit_number |-> <<"2">>, score |-> 80 * FloatOne,
      type_accuracy |-> 70 * FloatOne, correct_count |-> 7, total_questions |-> 7]}

\* limit: below and above the number of rows there can be
LimitInputs == {1, 20}

GetQueries ==
    \/ \E username \in QueryUsernames, limit \in LimitInputs :
           GetUserResults(username, limit)
    \/ \E limit \in LimitInputs : GetAllResults(limit)
    \/ \E username \in QueryUsernames, unit \in QueryUnits, limit \in LimitInputs :
           GetScoreCurve(username, unit, limit)
    \/ \E username \in QueryUsernames, unit \in QueryUnits :
           GetScoreCurveByCount(username, unit)
    \/ \E username \in QueryUsernames : get_score_curve_by_unit(username)
    \/ \E username \in QueryUsernames, unit \in QueryUnits :
           GetUserStats(username, unit)

NextQueries ==
    \/ \E result \in SubmittedForQueries : save_exam_result(result)
    \/ DeleteExamResult
    \/ GetQueries
    \/ Tick

\* the Record Store as the lists, curves and statistics read it
SpecQueries == Init /\ [][NextQueries]_vars

\* the ids that the concurrent requests are about
SharedIds == {1, 2}

\* what each process sends: w1 updates the score, w2 the unit and the
\* number of questions, w3 deletes
UpdateOf(w) ==
    IF w = "w1"
    THEN [NoUpdate EXCEPT !.score = Some(0)]
    ELSE [NoUpdate EXCEPT !.unit_number = Some(<<"3">>),
                          !.total_questions = Some(5)]

Updaters == {"w1", "w2"}

Deleters == {"w3"}

NextConcurrent ==
    \/ /\ save_exam_result([username |-> <<"a">>, unit_number |-> <<"2">>,
                            score |-> 80 * FloatOne,
                            type_accuracy |-> 70 * FloatOne,
                            correct_count |-> 4, total_questions |-> 10])
    \/ \E w \in Updaters, result_id \in SharedIds :
           update_check(w, result_id, UpdateOf(w))
    \/ \E w \in Updaters : update_write(w)
    \/ \E w \in Updaters : update_refetch(w)
    \/ \E w \in Deleters, result_id \in SharedIds : delete_check(w, result_id)
    \/ \E w \in Deleters : delete_write(w)

\* Update and Delete requests of several processes, interleaved statement
\* by statement
SpecConcurrent == Init /\ [][NextConcurrent]_vars

InitDb == init_db

AdminLogin == \E password \in PasswordInputs : admin_login([password |-> password])

AdminVerify == \E token \in TokenInputs : admin_verify(token)

AdminLogout == \E token \in TokenInputs : admin_logout(token)

AdminChangePassword ==
    \E old_password \in PasswordInputs, new_password \in PasswordInputs,
       token \in TokenInputs :
        admin_change_password([old_password |-> old_password,
                               new_password |-> new_password], token)

CreateUser ==
    \E username \in UsernameInputs, password \in PasswordInputs :
        create_user([username |-> username, password |-> password])

UserLogin ==
    \E username \in UsernameInputs, password \in PasswordInputs :
        user_login([username |-> username, password |-> password])

AdminListUsers == \E token \in TokenInputs : admin_list_users(token)

AdminDeleteUser ==
    \E user_id \in UserIdInputs, token \in TokenInputs :
        admin_delete_user(user_id, token)

AdminResetPassword ==
    \E user_id \in UserIdInputs, new_password \in {<<"p">>, DefaultAdminPassword},
       token \in TokenInputs :
        admin_reset_password(user_id, new_password, token)

NextAdmin ==
    \/ InitDb
    \/ AdminLogin
    \/ AdminVerify
    \/ AdminLogout
    \/ AdminChangePassword
    \/ Tick

\* admin sessions and the admin password
SpecAdmin == Init /\ [][NextAdmin]_vars

NextAccounts ==
    \/ admin_login([password |-> DefaultAdminPassword])
    \/ AdminLogout
    \/ CreateUser
    \/ UserLogin
    \/ AdminListUsers
    \/ AdminDeleteUser
    \/ AdminResetPassword

\* the Account Store and the admin sessions that guard it, at one moment
SpecAccounts == Init /\ [][NextAccounts]_vars

\* every handler that writes, logs in or checks a token, each on one or two
\* requests; the read routes of the Record Store are in NextQueries
Next ==
    \/ InitDb
    \/ \E password \in {<<"p">>, DefaultAdminPassword} :
           admin_login([password |-> password])
    \/ admin_verify("t1")
    \/ \E token \in GeneratedTokens : admin_logout(token)
    \/ admin_change_password([old_password |-> DefaultAdminPassword,
                              new_password |-> <<"p">>], "t1")
    \/ create_user([username |-> <<"a">>, password |-> <<"p">>])
    \/ user_login([username |-> <<"a">>, password |-> <<"p">>])
    \/ admin_list_users("t1")
    \/ admin_delete_user(1, "t1")
    \/ admin_reset_password(1, DefaultAdminPassword, "t1")
    \/ \E username \in {<<" ">>, <<"a">>} :
           save_exam_result([username |-> username, unit_number |-> <<"2">>,
                             score |-> 80 * FloatOne,
                             type_accuracy |-> 70 * FloatOne,
                             correct_count |-> 4, total_questions |-> 10])
    \/ update_exam_result(1, [NoUpdate EXCEPT !.score = Some(0)])
    \/ delete_exam_result(1)
    \/ Tick

\* the whole service
Spec == Init /\ [][Next]_vars

-----------------------------------------------------------------------------
(* Admin sessions: C1 - C6 *)

\* a step taken by a handler (the clock stands still while it runs)
HandlerStep == clock' = clock

\* the digest stored under admin_password
StoredAdminDigest == {r.setting_value : r \in SelectAdminPassword(admin_settings)}

\* C1: an AdminLogin whose password digest matches the stored admin-password
\* setting answers 200 with a token that verify_admin_token accepts; after
\* AdminLogout(t), verify_admin_token rejects t.
C1_LoginTokenValidUntilLogout ==
    /\ (resp.op = "admin_login"
        /\ StoredAdminDigest = {Sha256(resp.request.password)})
       => (resp.status = 200 /\ verify_admin_token(resp.body.token))
    /\ resp.op = "admin_logout" => ~verify_admin_token(resp.token)

\* a token that a login issued has been logged out and is rejected
C1_Witness ==
    /\ resp.op = "admin_logout"
    /\ resp.token \in issued_tokens
    /\ ~verify_admin_token(resp.token)

\* C2: verify_admin_token fails closed.  POST /api/admin/verify answers 200
\* exactly for a non-empty token that is in admin_sessions and 401 otherwise;
\* the session store holds only non-empty tokens that a successful AdminLogin
\* issued; the empty token and every token outside the store are invalid.
C2_VerifyFailsClosed ==
    /\ resp.op = "admin_verify" =>
          /\ resp.status \in {200, 401}
          /\ resp.status = 200 <=> (resp.token # "" /\ resp.token \in admin_sessions)
    /\ admin_sessions \subseteq issued_tokens
    /\ "" \notin admin_sessions
    /\ \A token \in TokenInputs :
          verify_admin_token(token) <=> (token # "" /\ token \in admin_sessions)

\* a token that was issued and has been logged out is reported invalid
C2_Witness ==
    /\ resp.op = "admin_verify"
    /\ resp.status = 401
    /\ resp.token \in issued_tokens

AdminUserOps == {"admin_list_users", "admin_delete_user", "admin_reset_password"}

\* C3: AdminListUsers, AdminDeleteUser and AdminResetPassword check the token
\* on every call: called with a token that is invalid at that moment they
\* answer 401 and leave the Account Store as it was.
C3_AdminUserOpsRequireToken ==
    [][(HandlerStep /\ resp'.op \in AdminUserOps
        /\ ~(resp'.token # "" /\ resp'.token \in admin_sessions))
       => (resp'.status = 401 /\ users' = users /\ users_seq' = users_seq)]_vars

\* a delete is refused for a token that was issued and has been logged out,
\* while there is an account to delete
C3_Witness ==
    /\ resp.op = "admin_delete_user"
    /\ resp.status = 401
    /\ resp.token \in issued_tokens
    /\ \E u \in users : u.id = resp.request.user_id

\* C4: ChangeAdminPassword answers 401 and leaves the stored digest alone when
\* the token is invalid or the digest of old differs from the stored one;
\* otherwise it answers 200 and the stored digest becomes the digest of new.
\* The stored digest changes in no other way, and an AdminLogin succeeds
\* exactly when the digest of its password is the stored one: after a change
\* it succeeds with new and fails with an old that differs from new.
C4_ChangeAdminPassword ==
    [][/\ (HandlerStep /\ resp'.op = "admin_change_password") =>
            IF ~(resp'.token # "" /\ resp'.token \in admin_sessions)
               \/ StoredAdminDigest # {Sha256(resp'.request.old_password)}
            THEN resp'.status = 401 /\ admin_settings' = admin_settings
            ELSE /\ resp'.status = 200
                 /\ StoredAdminDigest' = {Sha256(resp'.request.new_password)}
                 /\ (resp'.request.old_password # resp'.request.new_password
                        => StoredAdminDigest' # {Sha256(resp'.request.old_password)})
       /\ admin_settings' # admin_settings =>
            (resp'.op = "admin_change_password" /\ resp'.status = 200)
       /\ (HandlerStep /\ resp'.op = "admin_login") =>
            /\ resp'.status \in {200, 401}
            /\ resp'.status = 200
                  <=> StoredAdminDigest = {Sha256(resp'.request.password)}]_vars

\* after a change, an AdminLogin with the old (default) password is refused
C4_Witness ==
    /\ resp.op = "admin_login"
    /\ resp.status = 401
    /\ resp.request.password = DefaultAdminPassword
    /\ StoredAdminDigest # {Sha256(DefaultAdminPassword)}

\* C5: a session never expires: a token in admin_sessions stays there in
\* every step but the AdminLogout of that very token.
C5_SessionOnlyEndsByItsLogout ==
    [][\A token \in admin_sessions :
          \/ token \in admin_sessions'
          \/ (HandlerStep /\ resp'.op = "admin_logout" /\ resp'.token = token)]_vars

\* a session has outlived the logout of the other token, a password change
\* and all the time the clock measures
C5_Witness ==
    /\ admin_sessions # {}
    /\ issued_tokens \ admin_sessions # {}
    /\ StoredAdminDigest # {Sha256(DefaultAdminPassword)}
    /\ exam_seq > 0
    /\ users_seq > 0
    /\ clock = MaxTicks * TickSeconds

\* C6: AdminLogout(t) always answers 200 and removes the row of t and no
\* other: the store is left unchanged when t is not in it (the empty token
\* included), and a second AdminLogout(t) changes nothing more.
C6_LogoutIdempotentAndNarrow ==
    [][(HandlerStep /\ resp'.op = "admin_logout") =>
          /\ resp'.status = 200
          /\ admin_sessions' = admin_sessions \ {resp'.token}
          /\ (resp'.token \notin admin_sessions => admin_sessions' = admin_sessions)
          /\ DeleteSession(admin_sessions', resp'.token) = admin_sessions']_vars

\* a token already logged out is logged out again while another session lives
C6_Witness ==
    /\ resp.op = "admin_logout"
    /\ resp.token \in issued_tokens \ admin_sessions
    /\ admin_sessions # {}

-----------------------------------------------------------------------------
(* Record Store: C7 - C10 *)

\* a string of nothing but whitespace
IsBlank(s) == \A i \in 1..Len(s) : s[i] \in Whitespace

\* t is s without its leading and trailing whitespace
IsTrimOf(t, s) ==
    \E i \in 1..(Len(s) + 1), j \in 0..Len(s) :
        /\ t = SubSeq(s, i, j)
        /\ \A k \in 1..(i - 1) : s[k] \in Whitespace
        /\ \A k \in (j + 1)..Len(s) : s[k] \in Whitespace
        /\ t # <<>> => (t[1] \notin Whitespace /\ t[Len(t)] \notin Whitespace)

ExamIds(table) == {r.id : r \in table}

\* C7: inserting a result whose username is empty or whitespace-only answers
\* 400 and adds no row.
C7_BlankUsernameRejected ==
    [][(HandlerStep /\ resp'.op = "save_exam_result"
        /\ IsBlank(resp'.request.username))
       => (resp'.status = 400 /\ exam_results' = exam_results
           /\ exam_seq' = exam_seq)]_vars

\* a whitespace-only username is refused while the store holds rows
C7_Witness ==
    /\ resp.op = "save_exam_result"
    /\ resp.request.username = <<" ">>
    /\ resp.status = 400
    /\ exam_results # {}

\* C8: inserting a result with a non-blank username answers 200, adds exactly
\* one row and returns it: its id is the id of no other stored row, its
\* timestamp is set, its username is the submitted one trimmed and its other
\* fields are the submitted ones.
C8_InsertAddsOneRow ==
    [][(HandlerStep /\ resp'.op = "save_exam_result"
        /\ ~IsBlank(resp'.request.username))
       => /\ resp'.status = 200
          /\ \E row \in exam_results' :
                /\ row \notin exam_results
                /\ exam_results' = exam_results \cup {row}
                /\ \A r \in exam_results' \ {row} : r.id # row.id
                /\ row.exam_date # None
                /\ IsTrimOf(row.username, resp'.request.username)
                /\ row.unit_number = resp'.request.unit_number
                /\ row.score = resp'.request.score
                /\ row.type_accuracy = resp'.request.type_accuracy
                /\ row.correct_count = resp'.request.correct_count
                /\ row.total_questions = resp'.request.total_questions
                /\ resp'.body = ExamResultResponse(row)
                /\ resp'.body.exam_date # ""]_vars

\* C8, without the submitted score and type_accuracy: they come back as
\* the REAL column holds them
C8_InsertAddsOneRowButReals ==
    [][(HandlerStep /\ resp'.op = "save_exam_result"
        /\ ~IsBlank(resp'.request.username))
       => /\ resp'.status = 200
          /\ \E row \in exam_results' :
                /\ row \notin exam_results
                /\ exam_results' = exam_results \cup {row}
                /\ \A r \in exam_results' \ {row} : r.id # row.id
                /\ row.exam_date # None
                /\ IsTrimOf(row.username, resp'.request.username)
                /\ row.unit_number = resp'.request.unit_number
                /\ row.correct_count = resp'.request.correct_count
                /\ row.total_questions = resp'.request.total_questions
                /\ resp'.body = ExamResultResponse(row)
                /\ resp'.body.exam_date # ""]_vars

UpdatableFields ==
    {"unit_number", "score", "type_accuracy", "correct_count", "total_questions"}

\* a value as the column of field f gives it back
AsColumnHolds(f, v) ==
    IF f \in {"score", "type_accuracy"} THEN RealColumn(v) ELSE v

\* C9: Update(id, partial) on an existing id answers 200 and changes only the
\* fields present in the payload: a field that is not given, and always id,
\* username and exam_date, keeps its value, a field that is given takes the
\* given value as its column holds it, every other row is unchanged, an
\* empty payload changes nothing, and the answer is the row as stored after
\* the update, its exam_date printed by format_exam_date.
C9_UpdateChangesOnlyGivenFields ==
    [][(HandlerStep /\ resp'.op = "update_exam_result"
        /\ resp'.result_id \in ExamIds(exam_results))
       => LET old == CHOOSE r \in exam_results : r.id = resp'.result_id
              upd == resp'.request
          IN  /\ resp'.status = 200
              /\ exam_seq' = exam_seq
              /\ upd = NoUpdate => exam_results' = exam_results
              /\ \E new \in exam_results' :
                    /\ new.id = old.id
                    /\ new.username = old.username
                    /\ new.exam_date = old.exam_date
                    /\ \A f \in UpdatableFields :
                          new[f] = IF upd[f] = None
                                   THEN old[f]
                                   ELSE AsColumnHolds(f, upd[f][1])
                    /\ exam_results' \ {new} = exam_results \ {old}
                    /\ resp'.body = ExamResultResponse(new)]_vars

\* the score alone was set, to 0, in one of two stored rows
C9_Witness ==
    /\ resp.op = "update_exam_result"
    /\ resp.status = 200
    /\ resp.request = [NoUpdate EXCEPT !.score = Some(0)]
    /\ resp.body.score = 0
    /\ resp.body.unit_number = <<"2">>
    /\ Cardinality(exam_results) = 2

\* the default limit of the shortest list
QueryLimits == {20}

\* no list, curve or stats query fetches a row of this id
NoQueryFetches(table, id) ==
    /\ \A limit \in QueryLimits : \A s \in get_all_results(table, limit) :
          \A i \in 1..Len(s) : s[i].id # id
    /\ \A username \in QueryUsernames :
          /\ \A limit \in QueryLimits :
                \A s \in get_user_results(table, username, limit) :
                    \A i \in 1..Len(s) : s[i].id # id
          /\ \A unit \in QueryUnits :
                /\ \A limit \in QueryLimits :
                      \A s \in get_score_curve(table, username, unit, limit) :
                          \A i \in 1..Len(s) : s[i].id # id
                /\ \A r \in get_user_stats(table, username, unit).rows : r.id # id
                /\ \A s \in get_user_stats(table, username, unit).recent :
                      \A i \in 1..Len(s) : s[i].id # id

\* C10: Delete of an id that is not stored answers 404 and changes nothing;
\* Delete of a stored id answers 200 with that id and removes that row and
\* no other.  An id that was handed out and is no longer stored never comes
\* back, so a later Delete or Update of it answers 404, and no list, curve
\* or stats query fetches a row of it.
C10_DeleteRemovesForGood ==
    [][/\ (HandlerStep /\ resp'.op = "delete_exam_result") =>
            IF resp'.result_id \notin ExamIds(exam_results)
            THEN /\ resp'.status = 404
                 /\ exam_results' = exam_results
                 /\ exam_seq' = exam_seq
            ELSE /\ resp'.status = 200
                 /\ resp'.body.id = resp'.result_id
                 /\ exam_results' = {r \in exam_results : r.id # resp'.result_id}
                 /\ Cardinality(exam_results') = Cardinality(exam_results) - 1
       /\ (HandlerStep /\ resp'.op = "update_exam_result"
           /\ resp'.result_id \notin ExamIds(exam_results)) =>
            (resp'.status = 404 /\ exam_results' = exam_results)
       /\ \A id \in (1..exam_seq) \ ExamIds(exam_results) :
            /\ id \notin ExamIds(exam_results')
            /\ NoQueryFetches(exam_results', id)]_vars

\* an Update of an id that was stored and has been deleted answers 404
C10_Witness ==
    /\ resp.op = "update_exam_result"
    /\ resp.status = 404
    /\ resp.result_id <= exam_seq
    /\ exam_results # {}

-----------------------------------------------------------------------------
(* Lists, curves and statistics: C11 - C16, C20 *)

\* the rows of a fetched sequence
RowsOf(s) == {s[i] : i \in 1..Len(s)}

\* a fetched sequence holds no row twice
NoRowTwice(s) == \A i, j \in 1..Len(s) : i # j => s[i] # s[j]

\* oldest first / newest first by exam_date
OldestFirst(s) ==
    \A i, j \in 1..Len(s) : i < j => s[i].exam_date[1] <= s[j].exam_date[1]

NewestFirst(s) ==
    \A i, j \in 1..Len(s) : i < j => s[i].exam_date[1] >= s[j].exam_date[1]

\* the rows of s are among the most recent of the rows that qualify: none
\* that was left out is newer than one that was taken
MostRecentOf(s, qualifying) ==
    /\ RowsOf(s) \subseteq qualifying
    /\ \A r \in RowsOf(s), q \in qualifying \ RowsOf(s) :
          r.exam_date[1] >= q.exam_date[1]

\* C11: when more than limit rows qualify, Curve(username, unit?, limit)
\* answers with the limit most recent of them, oldest first.
C11_CurveTakesMostRecent ==
    (resp.op = "get_score_curve"
     /\ Cardinality(SelectExams(exam_results, resp.username, resp.unit)) > resp.limit)
    => /\ Len(resp.rows) = resp.limit
       /\ NoRowTwice(resp.rows)
       /\ MostRecentOf(resp.rows, SelectExams(exam_results, resp.username, resp.unit))
       /\ OldestFirst(resp.rows)
       /\ resp.body = ScoreCurveData(resp.rows)

\* C12: Curve(username) answers with rows of that user only, at most limit
\* of them, oldest first (and so are its dates); ListByUser(username, limit)
\* answers with rows of that user only, the most recent ones, as many as
\* limit allows, newest first.
C12_CurveAndListOrdered ==
    /\ resp.op = "get_score_curve" =>
          /\ RowsOf(resp.rows) \subseteq exam_results
          /\ \A r \in RowsOf(resp.rows) : r.username = resp.username
          /\ NoRowTwice(resp.rows)
          /\ Len(resp.rows) <= resp.limit
          /\ OldestFirst(resp.rows)
          /\ Len(resp.body.dates) = Len(resp.rows)
          /\ \A i, j \in 1..Len(resp.body.dates) :
                i < j => resp.body.dates[i][2] <= resp.body.dates[j][2]
    /\ resp.op = "get_user_results" =>
          LET mine == {r \in exam_results : r.username = resp.username}
          IN  /\ MostRecentOf(resp.rows, mine)
              /\ NoRowTwice(resp.rows)
              /\ Len(resp.rows) = IF Cardinality(mine) < resp.limit
                                  THEN Cardinality(mine) ELSE resp.limit
              /\ NewestFirst(resp.rows)
              /\ resp.body = [i \in 1..Len(resp.rows) |->
                                 ExamResultResponse(resp.rows[i])]

\* a list cut by its limit to the newer of two rows taken at different times
C12_Witness ==
    /\ resp.op = "get_user_results"
    /\ resp.limit = 1
    /\ Len(resp.rows) = 1
    /\ \E r \in exam_results :
          /\ r.username = resp.username
          /\ r.exam_date[1] < resp.rows[1].exam_date[1]

\* C13: the buckets of CurveByQuestionCount are disjoint: no row is in two of
\* "5", "10", "ALL"; bucket "5" holds exactly the qualifying rows of 5
\* questions and bucket "10" exactly those of 10; every row in a bucket is a
\* row of the user and, when a unit is given, of that unit.
C13_BucketsDisjoint ==
    resp.op = "get_score_curve_by_count" =>
       LET qualifying == SelectExams(exam_results, resp.username, resp.unit)
       IN  /\ \A c1, c2 \in DOMAIN resp.rows :
                 c1 # c2 => RowsOf(resp.rows[c1]) \cap RowsOf(resp.rows[c2]) = {}
           /\ RowsOf(resp.rows["5"]) = {r \in qualifying : r.total_questions = 5}
           /\ RowsOf(resp.rows["10"]) = {r \in qualifying : r.total_questions = 10}
           /\ \A c \in DOMAIN resp.rows :
                 /\ NoRowTwice(resp.rows[c])
                 /\ \A r \in RowsOf(resp.rows[c]) :
                       /\ r \in exam_results
                       /\ r.username = resp.username
                       /\ resp.unit # None => r.unit_number = resp.unit[1]
           /\ resp.body = [c \in DOMAIN resp.rows |-> ScoreCurveData(resp.rows[c])]

\* a unit is given, the user has a row of it in bucket "10" and a row of
\* another unit that no bucket shows
C13_Witness ==
    /\ resp.op = "get_score_curve_by_count"
    /\ resp.unit = Some(<<"2">>)
    /\ Len(resp.rows["10"]) = 1
    /\ \E r \in exam_results :
          /\ r.username = resp.username
          /\ r.unit_number # <<"2">>
          /\ r.total_questions = 5

\* C14: the buckets of CurveByQuestionCount are exhaustive: every qualifying
\* row is in some bucket, and every qualifying row of 11 questions or more,
\* however many, is in bucket "ALL".
C14_BucketsExhaustive ==
    resp.op = "get_score_curve_by_count" =>
       \A r \in SelectExams(exam_results, resp.username, resp.unit) :
          /\ \E c \in DOMAIN resp.rows : r \in RowsOf(resp.rows[c])
          /\ r.total_questions >= AllMinQuestions => r \in RowsOf(resp.rows["ALL"])

\* the rows in the order they were submitted: by id
RECURSIVE InSubmissionOrder(_)
InSubmissionOrder(rows) ==
    IF rows = {} THEN <<>>
    ELSE LET last == CHOOSE r \in rows : \A x \in rows : x.id <= r.id
         IN  Append(InSubmissionOrder(rows \ {last}), last)

\* the last n elements of a sequence
LastOf(s, n) == IF Len(s) <= n THEN s ELSE SubSeq(s, Len(s) - n + 1, Len(s))

\* no stored row matches the username and, when one is given, the unit
NoRowMatches(username, unit) ==
    ~\E r \in exam_results :
        r.username = username /\ (unit # None => r.unit_number = unit[1])

\* C15: Stats(username) counts the stored rows of the user, gives the largest
\* of their scores as best_score, and lists as recent_scores the scores of
\* the (up to 10) most recently submitted rows in the order they were
\* submitted, oldest first: 80 then 90 gives [80, 90].
C15_StatsInSubmissionOrder ==
    (resp.op = "get_user_stats" /\ resp.unit = None
     /\ ~NoRowMatches(resp.username, None))
    => LET mine == {r \in exam_results : r.username = resp.username}
           recent == LastOf(InSubmissionOrder(mine), RecentLimit)
       IN  /\ resp.status = 200
           /\ resp.body.total_exams = Cardinality(mine)
           /\ \E r \in mine : r.score = resp.body.best_score
           /\ \A r \in mine : r.score <= resp.body.best_score
           /\ resp.body.recent_scores = [i \in 1..Len(recent) |-> recent[i].score]

\* C16: when no stored row matches the username and the optional unit, Stats
\* answers 200 with total_exams, average_score, average_type_accuracy and
\* best_score all 0 and no recent_scores.
C16_StatsZeroState ==
    (resp.op = "get_user_stats" /\ NoRowMatches(resp.username, resp.unit))
    => /\ resp.status = 200
       /\ resp.body = [username |-> resp.username, total_exams |-> 0,
                       average_score |-> 0, average_type_accuracy |-> 0,
                       best_score |-> 0, recent_scores |-> <<>>]

\* the zero state of a store whose rows were all deleted
C16_Witness ==
    /\ resp.op = "get_user_stats"
    /\ resp.username = <<"a">>
    /\ resp.body.total_exams = 0
    /\ exam_results = {}
    /\ exam_seq = MaxInserts

\* C20: CurveByUnit(username) answers 200 with the distinct unit_numbers of
\* the user, each once, ordered by numeric value ("2" before "10"), and one
\* curve per unit, oldest first, that holds exactly the user's rows of that
\* unit.
C20_CurveByUnitNumericOrder ==
    resp.op = "get_score_curve_by_unit" =>
       LET mine == {r \in exam_results : r.username = resp.username}
       IN  /\ resp.status = 200
           /\ {resp.body.units[i] : i \in 1..Len(resp.body.units)}
                 = {r.unit_number : r \in mine}
           /\ \A i, j \in 1..Len(resp.body.units) :
                 i < j => /\ resp.body.units[i] # resp.body.units[j]
                          /\ CastAsInteger(resp.body.units[i])
                                <= CastAsInteger(resp.body.units[j])
           /\ DOMAIN resp.body.data = {r.unit_number : r \in mine}
           /\ \A u \in DOMAIN resp.rows :
                 /\ RowsOf(resp.rows[u]) = {r \in mine : r.unit_number = u}
                 /\ NoRowTwice(resp.rows[u])
                 /\ OldestFirst(resp.rows[u])
                 /\ resp.body.data[u] = ScoreCurveData(resp.rows[u])

-----------------------------------------------------------------------------
(* Account Store: C17 - C19 *)

\* C17: CreateAccount with a username that, trimmed, an account already has
\* answers 400 and leaves the accounts as they were, the digest of the
\* existing one included; no two accounts ever share a username.
C17_UsernamesUnique ==
    [][/\ (HandlerStep /\ resp'.op = "create_user"
           /\ \E u \in users : IsTrimOf(u.username, resp'.request.username))
          => (resp'.status = 400 /\ users' = users)
       /\ \A u, v \in users' : u.username = v.username => u = v]_vars

\* a second CreateAccount for a username that is taken, with another
\* password, was refused and the digest is the first one's still
C17_Witness ==
    /\ resp.op = "create_user"
    /\ resp.status = 400
    /\ resp.detail = "Username already exists or invalid"
    /\ \E u \in users :
          /\ IsTrimOf(u.username, resp.request.username)
          /\ u.password_hash # Sha256(resp.request.password)

\* C18 as claimed: CreateAccount fails with ValidationError and creates no
\* account if the username or the password is empty after trimming.
C18_BlankFieldsRejected ==
    [][(HandlerStep /\ resp'.op = "create_user"
        /\ (IsBlank(resp'.request.username) \/ IsBlank(resp'.request.password)))
       => /\ resp'.status = 400
          /\ resp'.detail = "Username and password are required"
          /\ users' = users]_vars

\* C18, amended: CreateAccount fails with ValidationError exactly when the
\* username is empty after trimming or the password is empty as sent, and
\* then creates no account; the password is not trimmed, so with a free
\* username a whitespace-only password is accepted and its digest stored.
C18_BlankUsernameOrEmptyPasswordRejected ==
    [][(HandlerStep /\ resp'.op = "create_user") =>
          IF IsBlank(resp'.request.username) \/ resp'.request.password = <<>>
          THEN /\ resp'.status = 400
               /\ resp'.detail = "Username and password are required"
               /\ users' = users
               /\ users_seq' = users_seq
          ELSE /\ ~(resp'.status = 400
                    /\ resp'.detail = "Username and password are required")
               /\ (~\E u \in users : IsTrimOf(u.username, resp'.request.username))
                  => /\ resp'.status = 200
                     /\ \E u \in users' \ users :
                           /\ IsTrimOf(u.username, resp'.request.username)
                           /\ u.password_hash = Sha256(resp'.request.password)]_vars

\* an account was created with a password of one blank
C18_Witness ==
    /\ resp.op = "create_user"
    /\ resp.status = 200
    /\ resp.request.password = <<" ">>
    /\ \E u \in users : u.password_hash = Sha256(<<" ">>)

\* an account of the username (trimmed) holds the digest of the password
CredentialsMatch(table, data) ==
    \E u \in table :
        /\ IsTrimOf(u.username, data.username)
        /\ u.password_hash = Sha256(data.password)

\* C19 as claimed: Login answers 401 whenever no account has the username or
\* the stored digest differs from that of the password, 200 exactly when an
\* account of the username holds the digest; it changes nothing.
C19_LoginUnauthorizedOrOk ==
    [][(HandlerStep /\ resp'.op = "user_login") =>
          /\ resp'.status = IF CredentialsMatch(users, resp'.request) THEN 200 ELSE 401
          /\ UNCHANGED <<accountTables, adminTables>>]_vars

\* C19, amended: Login with a username that is empty after trimming or with
\* an empty password answers 400; otherwise it answers 200 exactly when an
\* account of the trimmed username holds the digest of the password and 401
\* when none does.  In every case the Account Store and the admin sessions
\* are left as they were and the answer carries no token.
C19_LoginValidatesThenChecksDigest ==
    [][(HandlerStep /\ resp'.op = "user_login") =>
          /\ resp'.status =
                IF IsBlank(resp'.request.username) \/ resp'.request.password = <<>>
                THEN 400
                ELSE IF CredentialsMatch(users, resp'.request) THEN 200 ELSE 401
          /\ resp'.status = 200 => DOMAIN resp'.body = {"success", "username"}
          /\ UNCHANGED <<accountTables, adminTables>>]_vars

\* a Login with the wrong password for an account there is was refused
C19_Witness ==
    /\ resp.op = "user_login"
    /\ resp.status = 401
    /\ \E u \in users :
          /\ IsTrimOf(u.username, resp.request.username)
          /\ u.password_hash # Sha256(resp.request.password)

-----------------------------------------------------------------------------
(* Start-up seed: C21 *)

\* C21: the admin-password seed is idempotent: init_db leaves admin_settings
\* as it is when an admin_password row exists, the digest that
\* ChangeAdminPassword stored included, and seeds the default digest only
\* when there is none; there is never more than one admin_password row, and
\* running init_db once more changes nothing.
C21_SeedIdempotent ==
    [][/\ (HandlerStep /\ resp'.op = "init_db") =>
            /\ admin_settings' =
                  IF SelectAdminPassword(admin_settings) # {}
                  THEN admin_settings
                  ELSE admin_settings
                          \cup {[setting_key |-> "admin_password",
                                 setting_value |-> Sha256(DefaultAdminPassword)]}
            /\ StoredAdminDigest # {} => StoredAdminDigest' = StoredAdminDigest
            /\ InsertOrIgnoreSetting(admin_settings', "admin_password",
                                     Sha256(DefaultAdminPassword)) = admin_settings'
       /\ Cardinality(SelectAdminPassword(admin_settings')) <= 1]_vars

\* init_db has run after a ChangeAdminPassword and the changed digest stands
C21_Witness ==
    /\ resp.op = "init_db"
    /\ StoredAdminDigest = {Sha256(<<"p">>)}

-----------------------------------------------------------------------------
(* Concurrent requests: C22, C23 *)

\* C22: every Update call ends with 404 or with 200 and the full row of its
\* id, however a Delete of the same id by another process interleaves with
\* its statements.
C22_UpdateEndsNotFoundOrRow ==
    \A w \in Workers :
        (calls[w].op = "update_exam_result" /\ calls[w].pc = "done")
        => /\ calls[w].status \in {404, 200}
           /\ calls[w].status = 200 => calls[w].body.id = calls[w].result_id

\* the fields that a payload gives
GivenFields(update) == {f \in DOMAIN update : update[f] # None}

\* C23: two Updates of the same id by two processes, giving disjoint sets of
\* fields, both take effect however their statements interleave: once both
\* have answered 200, the stored row of the id holds every field that
\* either of them gave, as its column holds it.
C23_DisjointUpdatesBothTakeEffect ==
    \A w, v \in Workers :
        (/\ w # v
         /\ calls[w].op = "update_exam_result" /\ calls[w].pc = "done"
         /\ calls[v].op = "update_exam_result" /\ calls[v].pc = "done"
         /\ calls[w].status = 200 /\ calls[v].status = 200
         /\ calls[w].result_id = calls[v].result_id
         /\ GivenFields(calls[w].request) \cap GivenFields(calls[v].request) = {})
        => \A r \in SelectExamById(exam_results, calls[w].result_id) :
              /\ \A f \in GivenFields(calls[w].request) :
                    r[f] = AsColumnHolds(f, calls[w].request[f][1])
              /\ \A f \in GivenFields(calls[v].request) :
                    r[f] = AsColumnHolds(f, calls[v].request[f][1])

\* both processes read the row before either wrote it, both have answered
\* 200, and the stored row holds the score of one and the unit of the other
C23_Witness ==
    /\ calls["w1"].op = "update_exam_result" /\ calls["w1"].pc = "done"
    /\ calls["w2"].op = "update_exam_result" /\ calls["w2"].pc = "done"
    /\ calls["w1"].status = 200 /\ calls["w2"].status = 200
    /\ calls["w1"].result_id = 1 /\ calls["w2"].result_id = 1
    /\ calls["w1"].existing[1].unit_number = <<"2">>
    /\ calls["w2"].existing[1].score = 80 * FloatOne
    /\ \E r \in exam_results :
          r.id = 1 /\ r.score = 0 /\ r.unit_number = <<"3">>

=============================================================================
